---- MODULE Spec2Model ----
(***************************************************************************)
(* Constant hoisting pass of lustc (src/lustc/src/data.rs): the classifier *)
(* Expr::is_complex_const, the collector collect_data, the rewriter        *)
(* replace_data, the materializer create_data and emit_data_access.        *)
(***************************************************************************)
EXTENDS Integers, Sequences, FiniteSets, TLC

VARIABLES
    input,          \* the program as the parser produced it (never changed)
    program,        \* the program the passes borrow; replace_data mutates it
    table,          \* Vec<LustData> returned by collect_data
    pc,             \* position of the compilation
    rewritten,      \* replace_data has returned
    replacements,   \* the assignments made at data.rs:85, in order
    created,        \* number of table entries handed to create_data with Ok
    declared,       \* names the backend module has declared
    defined,        \* names the backend module holds a definition for
    finalized,      \* names whose definition has been finalized
    data_ctx,       \* jit.data_ctx: the pending contents, or empty
    calls,          \* backend calls made so far, in order
    result,         \* the Result of the last create_data / emit_data_access
    ins,            \* instructions emitted into function bodies
    emitted,        \* number of data accesses emitted
    node,           \* classifier harness: the node handed to is_complex_const
    classified      \* classifier harness: what is_complex_const returned

vars == <<input, program, table, pc, rewritten, replacements, created,
          declared, defined, finalized, data_ctx, calls, result, ins,
          emitted, node, classified>>

-----------------------------------------------------------------------------
(* Bounds *)

\* Largest number of AST nodes in a generated program.
MaxNodes == 5

\* Longest list handed to the classifier on its own.
MaxArity == 3

-----------------------------------------------------------------------------
(* Expr: integer, string, symbol, nil, list of sub-expressions.  Every     *)
(* variant is a record of the same shape so that nodes compare.            *)

Integer(i) == [k |-> "Integer", n |-> i, s |-> "", v |-> <<>>]

String(t) == [k |-> "String", n |-> 0, s |-> t, v |-> <<>>]

Symbol(t) == [k |-> "Symbol", n |-> 0, s |-> t, v |-> <<>>]

Nil == [k |-> "Nil", n |-> 0, s |-> "", v |-> <<>>]

List(v) == [k |-> "List", n |-> 0, s |-> "", v |-> v]

(* Word: the runtime's value encoding.  Small values are inline, a list is *)
(* a chain of cons cells.                                                  *)

WInt(i) == [k |-> "int", n |-> i, s |-> "", v |-> <<>>]

WStr(t) == [k |-> "str", n |-> 0, s |-> t, v |-> <<>>]

WSym(t) == [k |-> "sym", n |-> 0, s |-> t, v |-> <<>>]

WNil == [k |-> "nil", n |-> 0, s |-> "", v |-> <<>>]

WPair(a, d) == [k |-> "pair", n |-> 0, s |-> "", v |-> <<a, d>>]

\* Expr::word_rep: a list (x1 ... xn) becomes cons(x1, cons(..., nil)).
RECURSIVE word_rep(_)
word_rep(e) ==
    CASE e.k = "Integer" -> WInt(e.n)
      [] e.k = "String" -> WStr(e.s)
      [] e.k = "Symbol" -> WSym(e.s)
      [] e.k = "Nil" -> WNil
      [] e.k = "List" ->
            IF e.v = <<>> THEN WNil
            ELSE WPair(word_rep(Head(e.v)), word_rep(List(Tail(e.v))))

\* Expr::from_immediate: a cons cell decodes to the two-element list of its
\* decoded car and cdr (data.rs:171-177), nil to Expr::Nil.
RECURSIVE from_immediate(_)
from_immediate(w) ==
    CASE w.k = "int" -> Integer(w.n)
      [] w.k = "str" -> String(w.s)
      [] w.k = "sym" -> Symbol(w.s)
      [] w.k = "nil" -> Nil
      [] w.k = "pair" -> List(<<from_immediate(w.v[1]), from_immediate(w.v[2])>>)

\* Option<Word>
None == [some |-> FALSE, val |-> WNil]

Some(w) == [some |-> TRUE, val |-> w]

-----------------------------------------------------------------------------
(* Classifier *)

\* Faulty variant: forgets the arity test of the quote form.
is_complex_const_any_arity(e) ==
    IF e.k = "List" THEN
        IF e.v # <<>> /\ Head(e.v).k = "Symbol" THEN
            IF Head(e.v).s = "quote" /\ Len(e.v) >= 2 THEN Some(word_rep(e.v[2]))
            ELSE None
        ELSE None
    ELSE IF e.k = "String" THEN Some(word_rep(e))
    ELSE None

\* Faulty variant: encodes the quote form itself instead of the quoted element.
is_complex_const_whole_form(e) ==
    IF e.k = "List" THEN
        IF e.v # <<>> /\ Head(e.v).k = "Symbol" THEN
            IF Head(e.v).s = "quote" /\ Len(e.v) = 2 THEN Some(word_rep(e))
            ELSE None
        ELSE None
    ELSE IF e.k = "String" THEN Some(word_rep(e))
    ELSE None

\* Expr::is_complex_const
is_complex_const(e) ==
    IF e.k = "List" THEN
        IF e.v # <<>> /\ Head(e.v).k = "Symbol" THEN
            IF Head(e.v).s = "quote" /\ Len(e.v) = 2 THEN Some(word_rep(e.v[2]))
            ELSE None
        ELSE None
    ELSE IF e.k = "String" THEN Some(word_rep(e))
    ELSE None

\* Names of the externally linked functions.
ForeignFunctions == {"ffi"}

\* Expr::is_foreign_call / is_foreign_call_mut: a list headed by the symbol
\* of an externally linked function; its arguments are the rest of the list.
is_foreign_call(e) ==
    IF e.k = "List" /\ e.v # <<>> /\ Head(e.v).k = "Symbol"
       /\ Head(e.v).s \in ForeignFunctions
    THEN [some |-> TRUE, name |-> Head(e.v).s, args |-> Tail(e.v)]
    ELSE [some |-> FALSE, name |-> "", args |-> <<>>]

-----------------------------------------------------------------------------
(* Collector *)

\* struct LustData
LustData(name, data) == [name |-> name, data |-> data]

\* format!("__anon_data_{}", count)
anon_data_name(count) == "__anon_data_" \o ToString(count)

RECURSIVE collect_data_w_count(_, _)
RECURSIVE collect_loop(_, _)
RECURSIVE preorder_traverse(_, _)
RECURSIVE preorder_children(_, _)

\* Faulty variant: skips a foreign call without scanning its arguments.
collect_visit_skip_args(e, acc) ==
    IF is_foreign_call(e).some
    THEN [status |-> "Skip", res |-> acc.res, count |-> acc.count]
    ELSE IF is_complex_const(e).some
    THEN [status |-> "Continue",
          res |-> Append(acc.res,
                         LustData(anon_data_name(acc.count), is_complex_const(e).val)),
          count |-> acc.count + 1]
    ELSE [status |-> "Continue", res |-> acc.res, count |-> acc.count]

\* Faulty variant: scans the arguments of a foreign call and then lets the
\* generic traversal descend into them as well.
collect_visit_no_skip(e, acc) ==
    IF is_foreign_call(e).some
    THEN LET r == collect_data_w_count(is_foreign_call(e).args, acc.count)
         IN  [status |-> "Continue", res |-> acc.res \o r.res, count |-> r.count]
    ELSE IF is_complex_const(e).some
    THEN [status |-> "Continue",
          res |-> Append(acc.res,
                         LustData(anon_data_name(acc.count), is_complex_const(e).val)),
          count |-> acc.count + 1]
    ELSE [status |-> "Continue", res |-> acc.res, count |-> acc.count]

\* Faulty variant: its recursive call on foreign-call arguments restarts the counter.
collect_visit_fresh_count(e, acc) ==
    IF is_foreign_call(e).some
    THEN LET r == collect_data_w_count(is_foreign_call(e).args, 0)
         IN  [status |-> "Skip", res |-> acc.res \o r.res,
              count |-> acc.count + r.count]
    ELSE IF is_complex_const(e).some
    THEN [status |-> "Continue",
          res |-> Append(acc.res,
                         LustData(anon_data_name(acc.count), is_complex_const(e).val)),
          count |-> acc.count + 1]
    ELSE [status |-> "Continue", res |-> acc.res, count |-> acc.count]

\* The closure handed to preorder_traverse by collect_data_w_count.
\* acc holds the local `res` and the shared `count`.
collect_visit(e, acc) ==
    IF is_foreign_call(e).some
    THEN LET r == collect_data_w_count(is_foreign_call(e).args, acc.count)
         IN  [status |-> "Skip", res |-> acc.res \o r.res, count |-> r.count]
    ELSE IF is_complex_const(e).some
    THEN [status |-> "Continue",
          res |-> Append(acc.res,
                         LustData(anon_data_name(acc.count), is_complex_const(e).val)),
          count |-> acc.count + 1]
    ELSE [status |-> "Continue", res |-> acc.res, count |-> acc.count]

\* Expr::preorder_traverse: the node first, then, unless the visitor said
\* Skip, its children from left to right.
preorder_traverse(e, acc) ==
    LET r == collect_visit(e, acc)
        after == [res |-> r.res, count |-> r.count]
    IN  IF r.status = "Skip" \/ e.k # "List" THEN after
        ELSE preorder_children(e.v, after)

preorder_children(es, acc) ==
    IF es = <<>> THEN acc
    ELSE preorder_children(Tail(es), preorder_traverse(Head(es), acc))

\* `for e in program { e.preorder_traverse(..) }`
collect_loop(es, acc) ==
    IF es = <<>> THEN acc
    ELSE collect_loop(Tail(es), preorder_traverse(Head(es), acc))

collect_data_w_count(prog, count) ==
    collect_loop(prog, [res |-> <<>>, count |-> count])

\* collect_data: the counter starts at 0 for the whole program.
collect_data(prog) == collect_data_w_count(prog, 0).res

-----------------------------------------------------------------------------
(* Rewriter *)

RECURSIVE replace_data_w_count(_, _, _)
RECURSIVE replace_loop(_, _, _)
RECURSIVE preorder_traverse_mut(_, _, _)
RECURSIVE preorder_children_mut(_, _, _)

\* Faulty variant: skips a foreign call without rewriting its arguments.
replace_visit_skip_args(e, data, acc) ==
    IF acc.panic THEN [status |-> "Skip", e |-> e, acc |-> acc]
    ELSE IF is_foreign_call(e).some
    THEN [status |-> "Skip", e |-> e, acc |-> acc]
    ELSE IF is_complex_const(e).some
    THEN IF acc.count >= Len(data)
         THEN [status |-> "Skip", e |-> e, acc |-> [acc EXCEPT !.panic = TRUE]]
         ELSE [status |-> "Continue",
               e |-> Symbol(data[acc.count + 1].name),
               acc |-> [count |-> acc.count + 1,
                        panic |-> FALSE,
                        log |-> Append(acc.log,
                                       [repr |-> is_complex_const(e).val,
                                        index |-> acc.count,
                                        name |-> data[acc.count + 1].name])]]
    ELSE [status |-> "Continue", e |-> e, acc |-> acc]

\* Faulty variant: replaces a quote form of any arity.
replace_visit_any_quote(e, data, acc) ==
    IF acc.panic THEN [status |-> "Skip", e |-> e, acc |-> acc]
    ELSE IF is_foreign_call(e).some
    THEN LET r == replace_data_w_count(is_foreign_call(e).args, data, acc)
         IN  [status |-> "Skip", e |-> List(<<Head(e.v)>> \o r.prog), acc |-> r.acc]
    ELSE IF is_complex_const_any_arity(e).some
    THEN IF acc.count >= Len(data)
         THEN [status |-> "Skip", e |-> e, acc |-> [acc EXCEPT !.panic = TRUE]]
         ELSE [status |-> "Continue",
               e |-> Symbol(data[acc.count + 1].name),
               acc |-> [count |-> acc.count + 1,
                        panic |-> FALSE,
                        log |-> Append(acc.log,
                                       [repr |-> is_complex_const_any_arity(e).val,
                                        index |-> acc.count,
                                        name |-> data[acc.count + 1].name])]]
    ELSE [status |-> "Continue", e |-> e, acc |-> acc]

\* The closure handed to preorder_traverse_mut by replace_data_w_count.
\* acc holds the shared `count`, whether data[*count] has panicked, and the
\* assignments made so far.  Returns the node as the closure leaves it.
replace_visit(e, data, acc) ==
    IF acc.panic THEN [status |-> "Skip", e |-> e, acc |-> acc]
    ELSE IF is_foreign_call(e).some
    THEN LET r == replace_data_w_count(is_foreign_call(e).args, data, acc)
         IN  [status |-> "Skip", e |-> List(<<Head(e.v)>> \o r.prog), acc |-> r.acc]
    ELSE IF is_complex_const(e).some
    THEN IF acc.count >= Len(data)
         THEN [status |-> "Skip", e |-> e, acc |-> [acc EXCEPT !.panic = TRUE]]
         ELSE [status |-> "Continue",
               e |-> Symbol(data[acc.count + 1].name),
               acc |-> [count |-> acc.count + 1,
                        panic |-> FALSE,
                        log |-> Append(acc.log,
                                       [repr |-> is_complex_const(e).val,
                                        index |-> acc.count,
                                        name |-> data[acc.count + 1].name])]]
    ELSE [status |-> "Continue", e |-> e, acc |-> acc]

\* Expr::preorder_traverse_mut: the visitor gets the node by &mut; the
\* children walked afterwards are those of the node as the visitor left it
\* (the assignment at data.rs:85 drops the old node with its children).
preorder_traverse_mut(e, data, acc) ==
    LET r == replace_visit(e, data, acc)
    IN  IF r.status = "Skip" \/ r.e.k # "List" THEN [e |-> r.e, acc |-> r.acc]
        ELSE LET c == preorder_children_mut(r.e.v, data, r.acc)
             IN  [e |-> List(c.prog), acc |-> c.acc]

preorder_children_mut(es, data, acc) ==
    IF es = <<>> THEN [prog |-> <<>>, acc |-> acc]
    ELSE LET h == preorder_traverse_mut(Head(es), data, acc)
             t == preorder_children_mut(Tail(es), data, h.acc)
         IN  [prog |-> <<h.e>> \o t.prog, acc |-> t.acc]

\* `for e in program { e.preorder_traverse_mut(..) }`
replace_loop(es, data, acc) ==
    IF es = <<>> THEN [prog |-> <<>>, acc |-> acc]
    ELSE LET h == preorder_traverse_mut(Head(es), data, acc)
             t == replace_loop(Tail(es), data, h.acc)
         IN  [prog |-> <<h.e>> \o t.prog, acc |-> t.acc]

replace_data_w_count(prog, data, acc) == replace_loop(prog, data, acc)

\* replace_data: the counter starts at 0.
replace_data(prog, data) ==
    replace_data_w_count(prog, data, [count |-> 0, panic |-> FALSE, log |-> <<>>])

-----------------------------------------------------------------------------
(* Generated programs *)

Atoms == {Integer(1), String("s"), Symbol("quote"), Symbol("ffi")}

\* Expressions with exactly k nodes, given the table t of the sequences of
\* expressions with fewer nodes in total (t[i] holds those with i - 1 nodes).
ExprsOfSize(t, k) == IF k = 1 THEN Atoms ELSE { List(s) : s \in t[k] }

\* <<S0, ..., Sn>>: Si is the set of sequences of expressions with i nodes
\* in total.
RECURSIVE SeqsBySize(_)
SeqsBySize(n) ==
    IF n = 0 THEN << {<<>>} >>
    ELSE LET t == SeqsBySize(n - 1)
         IN  Append(t, UNION { { <<e>> \o s : e \in ExprsOfSize(t, k),
                                              s \in t[n - k + 1] } : k \in 1..n })

\* prog is a program of at most MaxNodes nodes.
IsProgram(prog) ==
    LET t == SeqsBySize(MaxNodes - 1)
    IN  \E n \in 0..MaxNodes :
           IF n = 0 THEN prog = <<>>
           ELSE \E k \in 1..n :
                   \E e \in ExprsOfSize(t, k), s \in t[n - k + 1] : prog = <<e>> \o s

\* Nodes handed to the classifier on its own: every kind of leaf, and the
\* lists of up to MaxArity of them.
ClassifierAtoms ==
    {Integer(1), String("s"), String("quote"), Symbol("quote"), Symbol("a"),
     Nil, List(<<>>), List(<<Symbol("quote"), Integer(1)>>)}

RECURSIVE TuplesUpTo(_, _)
TuplesUpTo(S, n) ==
    IF n = 0 THEN {<<>>}
    ELSE TuplesUpTo(S, n - 1)
         \cup { Append(t, x) : t \in { u \in TuplesUpTo(S, n - 1) : Len(u) = n - 1 },
                               x \in S }

ClassifierInputs ==
    ClassifierAtoms \cup { List(t) : t \in TuplesUpTo(ClassifierAtoms, MaxArity) }

-----------------------------------------------------------------------------
(* Code-generation backend: the JIT module and its data context *)

\* One backend call: the operation, the data name, whether it was accepted.
Call(op, name, ok) == [op |-> op, name |-> name, ok |-> ok]

\* The error value of a rejected backend call.
ModuleError(op, name) == [op |-> op, name |-> name]

\* e.to_string()
to_string(e) == e.op \o " rejected: " \o e.name

Ok == [kind |-> "Ok", err |-> ""]

Err(msg) == [kind |-> "Err", err |-> msg]

NoResult == [kind |-> "none", err |-> ""]

\* Word::to_ne_bytes: the bytes of the word.
to_ne_bytes(w) == [bytes |-> w]

\* Faulty variant: returns Ok without forcing finalize_definitions.
create_data_no_finalize(d, declare_ok, define_ok) ==
    LET contents == to_ne_bytes(d.data)
        c1 == Append(calls, Call("data_ctx.define", d.name, TRUE))
        c2 == Append(c1, Call("declare_data", d.name, declare_ok))
        c3 == Append(c2, Call("define_data", d.name, define_ok))
        c4 == Append(c3, Call("data_ctx.clear", d.name, TRUE))
    IN  IF ~declare_ok
        THEN [result |-> Err(to_string(ModuleError("declare_data", d.name))),
              calls |-> c2, data_ctx |-> <<contents>>,
              declared |-> declared, defined |-> defined, finalized |-> finalized]
        ELSE IF ~define_ok
        THEN [result |-> Err(to_string(ModuleError("define_data", d.name))),
              calls |-> c3, data_ctx |-> <<contents>>,
              declared |-> declared \cup {d.name},
              defined |-> defined, finalized |-> finalized]
        ELSE [result |-> Ok,
              calls |-> c4, data_ctx |-> <<>>,
              declared |-> declared \cup {d.name},
              defined |-> defined \cup {[name |-> d.name, contents |-> contents]},
              finalized |-> finalized]

\* Faulty variant: ignores a rejected define_data and carries on.
create_data_ignore_define_error(d, declare_ok, define_ok) ==
    LET contents == to_ne_bytes(d.data)
        c1 == Append(calls, Call("data_ctx.define", d.name, TRUE))
        c2 == Append(c1, Call("declare_data", d.name, declare_ok))
        c3 == Append(c2, Call("define_data", d.name, define_ok))
        c4 == Append(c3, Call("data_ctx.clear", d.name, TRUE))
        c5 == Append(c4, Call("finalize_definitions", d.name, TRUE))
    IN  IF ~declare_ok
        THEN [result |-> Err(to_string(ModuleError("declare_data", d.name))),
              calls |-> c2, data_ctx |-> <<contents>>,
              declared |-> declared, defined |-> defined, finalized |-> finalized]
        ELSE [result |-> IF define_ok THEN Ok
                         ELSE Err(to_string(ModuleError("define_data", d.name))),
              calls |-> c5, data_ctx |-> <<>>,
              declared |-> declared \cup {d.name},
              defined |-> defined \cup {[name |-> d.name, contents |-> contents]},
              finalized |-> finalized \cup {d.name}]

\* create_data(data, jit).  declare_ok and define_ok are the backend's
\* answers to declare_data and define_data.  Returns the whole effect.
create_data(d, declare_ok, define_ok) ==
    LET contents == to_ne_bytes(d.data)
        c1 == Append(calls, Call("data_ctx.define", d.name, TRUE))
        c2 == Append(c1, Call("declare_data", d.name, declare_ok))
        c3 == Append(c2, Call("define_data", d.name, define_ok))
        c4 == Append(c3, Call("data_ctx.clear", d.name, TRUE))
        c5 == Append(c4, Call("finalize_definitions", d.name, TRUE))
    IN  IF ~declare_ok
        THEN [result |-> Err(to_string(ModuleError("declare_data", d.name))),
              calls |-> c2, data_ctx |-> <<contents>>,
              declared |-> declared, defined |-> defined, finalized |-> finalized]
        ELSE IF ~define_ok
        THEN [result |-> Err(to_string(ModuleError("define_data", d.name))),
              calls |-> c3, data_ctx |-> <<contents>>,
              declared |-> declared \cup {d.name},
              defined |-> defined, finalized |-> finalized]
        ELSE [result |-> Ok,
              calls |-> c5, data_ctx |-> <<>>,
              declared |-> declared \cup {d.name},
              defined |-> defined \cup {[name |-> d.name, contents |-> contents]},
              finalized |-> finalized \cup {d.name}]

\* emit_data_access(name, ctx).  declare_ok is the backend's answer to
\* declare_data.
emit_data_access(name, declare_ok) ==
    LET c1 == Append(calls, Call("declare_data", name, declare_ok))
        c2 == Append(c1, Call("declare_data_in_func", name, TRUE))
    IN  IF ~declare_ok
        THEN [result |-> Err(to_string(ModuleError("declare_data", name))),
              calls |-> c1, ins |-> ins, declared |-> declared]
        ELSE [result |-> Ok,
              calls |-> c2,
              ins |-> ins \o <<[op |-> "symbol_value", name |-> name],
                               [op |-> "load", name |-> name]>>,
              declared |-> declared \cup {name}]

\* The symbols of a program, in pre-order.
RECURSIVE SymbolsOf(_)
SymbolsOf(es) ==
    IF es = <<>> THEN <<>>
    ELSE LET e == Head(es)
         IN  (IF e.k = "Symbol" THEN <<e.s>>
              ELSE IF e.k = "List" THEN SymbolsOf(e.v)
              ELSE <<>>) \o SymbolsOf(Tail(es))

TableNames == { table[i].name : i \in 1..Len(table) }

\* The hoisted-constant references the function-body code generator meets.
DataRefs == SelectSeq(SymbolsOf(program), LAMBDA nm : nm \in TableNames)

-----------------------------------------------------------------------------
(* The compilation *)

Init ==
    /\ IsProgram(input)
    /\ program = input
    /\ table = <<>>
    /\ pc = "parsed"
    /\ rewritten = FALSE
    /\ replacements = <<>>
    /\ created = 0
    /\ declared = {}
    /\ defined = {}
    /\ finalized = {}
    /\ data_ctx = <<>>
    /\ calls = <<>>
    /\ result = NoResult
    /\ ins = <<>>
    /\ emitted = 0
    /\ node = Nil
    /\ classified = <<>>

\* collect_data(&program)
Collect ==
    /\ pc = "parsed"
    /\ table' = collect_data(program)
    /\ pc' = "data"
    /\ UNCHANGED <<input, program, rewritten, replacements, created, declared,
                   defined, finalized, data_ctx, calls, result, ins, emitted,
                   node, classified>>

\* replace_data(&mut program, &table); an out-of-bounds data[*count] panics.
Replace ==
    /\ pc = "data"
    /\ ~rewritten
    /\ LET r == replace_data(program, table)
       IN  IF r.acc.panic
           THEN /\ pc' = "panic"
                /\ UNCHANGED <<program, rewritten, replacements>>
           ELSE /\ program' = r.prog
                /\ rewritten' = TRUE
                /\ replacements' = r.acc.log
                /\ pc' = pc
    /\ UNCHANGED <<input, table, created, declared, defined, finalized,
                   data_ctx, calls, result, ins, emitted, node, classified>>

\* create_data(table[created], &mut jit), for the entries in table order.
\* An Err aborts the compilation.
CreateData ==
    /\ pc = "data"
    /\ created < Len(table)
    /\ \E declare_ok \in BOOLEAN, define_ok \in BOOLEAN :
          LET r == create_data(table[created + 1], declare_ok, define_ok)
          IN  /\ result' = r.result
              /\ calls' = r.calls
              /\ data_ctx' = r.data_ctx
              /\ declared' = r.declared
              /\ defined' = r.defined
              /\ finalized' = r.finalized
              /\ created' = IF r.result.kind = "Ok" THEN created + 1 ELSE created
              /\ pc' = IF r.result.kind = "Ok" THEN pc ELSE "aborted"
    /\ UNCHANGED <<input, program, table, rewritten, replacements, ins,
                   emitted, node, classified>>

\* Data processing is over; function processing starts.
StartFunctions ==
    /\ pc = "data"
    /\ rewritten
    /\ created = Len(table)
    /\ pc' = "functions"
    /\ UNCHANGED <<input, program, table, rewritten, replacements, created,
                   declared, defined, finalized, data_ctx, calls, result, ins,
                   emitted, node, classified>>

\* emit_data_access(name, ctx) for the next hoisted-constant reference of
\* the function bodies.  An Err aborts the compilation.
EmitDataAccess ==
    /\ pc = "functions"
    /\ emitted < Len(DataRefs)
    /\ \E declare_ok \in BOOLEAN :
          LET r == emit_data_access(DataRefs[emitted + 1], declare_ok)
          IN  /\ result' = r.result
              /\ calls' = r.calls
              /\ ins' = r.ins
              /\ declared' = r.declared
              /\ emitted' = IF r.result.kind = "Ok" THEN emitted + 1 ELSE emitted
              /\ pc' = IF r.result.kind = "Ok" THEN pc ELSE "aborted"
    /\ UNCHANGED <<input, program, table, rewritten, replacements, created,
                   defined, finalized, data_ctx, node, classified>>

\* The classifier on its own: a node, classified up to twice.
InitClassifier ==
    /\ node \in ClassifierInputs
    /\ classified = <<>>
    /\ input = <<>>
    /\ program = <<>>
    /\ table = <<>>
    /\ pc = "classifier"
    /\ rewritten = FALSE
    /\ replacements = <<>>
    /\ created = 0
    /\ declared = {}
    /\ defined = {}
    /\ finalized = {}
    /\ data_ctx = <<>>
    /\ calls = <<>>
    /\ result = NoResult
    /\ ins = <<>>
    /\ emitted = 0

\* node.is_complex_const()
Classify ==
    /\ pc = "classifier"
    /\ Len(classified) < 2
    /\ classified' = Append(classified, is_complex_const(node))
    /\ UNCHANGED <<input, program, table, pc, rewritten, replacements, created,
                   declared, defined, finalized, data_ctx, calls, result, ins,
                   emitted, node>>

NextClassifier == Classify

SpecClassifier == InitClassifier /\ [][NextClassifier]_vars

Next ==
    \/ Collect
    \/ Replace
    \/ CreateData
    \/ StartFunctions
    \/ EmitDataAccess

Spec == Init /\ [][Next]_vars

-----------------------------------------------------------------------------
(* Vocabulary of the properties *)

\* Every node of a forest, in pre-order, descending into every list.
RECURSIVE NodesOf(_)
NodesOf(es) ==
    IF es = <<>> THEN <<>>
    ELSE <<Head(es)>>
         \o (IF Head(es).k = "List" THEN NodesOf(Head(es).v) ELSE <<>>)
         \o NodesOf(Tail(es))

\* A quote form of exactly two elements.
IsQuoteForm(e) == e.k = "List" /\ Len(e.v) = 2 /\ e.v[1] = Symbol("quote")

\* A complex-constant occurrence: a two-element quote form or a string.
IsComplexConstant(e) == IsQuoteForm(e) \/ e.k = "String"

\* The complex-constant occurrences of a forest, in pre-order.
ComplexNodes(es) == SelectSeq(NodesOf(es), IsComplexConstant)

\* What a complex constant denotes: the quoted element, or the string.
Denoted(e) == IF IsQuoteForm(e) THEN e.v[2] ELSE e

\* The cons-cell form of an expression: (x1 ... xn) as [x1, [x2, ... nil]].
RECURSIVE ConsForm(_)
ConsForm(e) ==
    IF e.k # "List" THEN e
    ELSE IF e.v = <<>> THEN Nil
    ELSE List(<<ConsForm(Head(e.v)), ConsForm(List(Tail(e.v)))>>)

IsForeignCall(e) == e.k = "List" /\ e.v # <<>> /\ Head(e.v) = Symbol("ffi")

\* A foreign call, one of whose arguments is a foreign call with a complex
\* constant among its arguments.
NestedForeignConstant(e) ==
    /\ IsForeignCall(e)
    /\ \E i \in 2..Len(e.v) :
          /\ IsForeignCall(e.v[i])
          /\ \E j \in 2..Len(e.v[i].v) : IsComplexConstant(e.v[i].v[j])

InputNodes == NodesOf(input)

ProgramNodes == NodesOf(program)

Collected == pc # "parsed" /\ pc # "classifier"

\* rewritten differs from original only where original has a complex
\* constant, and there it is a symbol.
RECURSIVE Frame(_, _)
Frame(original, new) ==
    IF IsComplexConstant(original) THEN new.k = "Symbol"
    ELSE IF original.k = "List"
    THEN /\ new.k = "List"
         /\ Len(new.v) = Len(original.v)
         /\ \A i \in 1..Len(original.v) : Frame(original.v[i], new.v[i])
    ELSE new = original

CallsOf(op) == { i \in 1..Len(calls) : calls[i].op = op }

-----------------------------------------------------------------------------
(* Properties *)

\* C1: order correspondence.  After replace_data(P, collect_data(P)) the
\* i-th replacement is at the node whose encoded value is table[i].data and
\* uses table[i].name, and every table entry is used by exactly one
\* replacement.
C1_OrderCorrespondence ==
    rewritten =>
        /\ Len(replacements) = Len(table)
        /\ \A i \in 1..Len(replacements) :
              /\ i <= Len(table)
              /\ replacements[i].repr = table[i].data
              /\ replacements[i].name = table[i].name

\* C2: exactly-once collection.  The table has one entry per
\* complex-constant occurrence of the program, in pre-order, without
\* deduplication, foreign-call arguments included once.
C2_ExactlyOnce ==
    Collected =>
        /\ Len(table) = Len(ComplexNodes(input))
        /\ \A i \in 1..Len(table) :
              table[i].data = word_rep(Denoted(ComplexNodes(input)[i]))

C2_Witness ==
    /\ Collected
    /\ Len(table) >= 1
    /\ \E i \in 1..Len(InputNodes) : NestedForeignConstant(InputNodes[i])

C4_NamesAsStated ==
    Collected =>
        /\ \A i \in 1..Len(table) : table[i].name = "anon_data_" \o ToString(i - 1)
        /\ \A i, j \in 1..Len(table) : i # j => table[i].name # table[j].name

\* C4 amended: the entry at table position i is named __anon_data_<i>, and
\* the names are pairwise distinct.
C4_Names ==
    Collected =>
        /\ \A i \in 1..Len(table) : table[i].name = "__anon_data_" \o ToString(i - 1)
        /\ \A i, j \in 1..Len(table) : i # j => table[i].name # table[j].name

C4_Witness ==
    /\ Collected
    /\ Len(input) >= 2
    /\ Len(table) >= 2
    /\ \E i \in 1..Len(InputNodes) :
          /\ IsForeignCall(InputNodes[i])
          /\ \E j \in 2..Len(InputNodes[i].v) : IsComplexConstant(InputNodes[i].v[j])

\* C5: the classifier returns a value exactly for a two-element quote form
\* (the encoding of its second element) and for a string (its own encoding),
\* and classifying the same node again gives the same result.
C5_Classifier ==
    \A i \in 1..Len(classified) :
        /\ classified[i].some <=> (IsQuoteForm(node) \/ node.k = "String")
        /\ IsQuoteForm(node) => classified[i].val = word_rep(node.v[2])
        /\ node.k = "String" => classified[i].val = word_rep(node)
        /\ classified[i] = classified[1]

C5_Witness ==
    /\ Len(classified) = 2
    /\ IsQuoteForm(node)
    /\ node.v[2].k = "List"

\* C6 as stated: decoding an entry's data gives the quoted sub-expression or
\* the string the entry was derived from.
C6_RoundTripAsStated ==
    Collected =>
        /\ Len(table) = Len(ComplexNodes(input))
        /\ \A i \in 1..Len(table) :
              from_immediate(table[i].data) = Denoted(ComplexNodes(input)[i])

\* C6 amended: decoding an entry's data gives the cons-cell form of the
\* quoted sub-expression or string the entry was derived from.
C6_RoundTrip ==
    Collected =>
        /\ Len(table) = Len(ComplexNodes(input))
        /\ \A i \in 1..Len(table) :
              from_immediate(table[i].data) = ConsForm(Denoted(ComplexNodes(input)[i]))

C6_Witness ==
    /\ Collected
    /\ \E i \in 1..Len(table) :
          /\ table[i].data.k = "pair"
          /\ from_immediate(table[i].data) # Denoted(ComplexNodes(input)[i])

\* C7: data before functions.  Every create_data that returned Ok declared,
\* defined and finalized its constant, in that order, once, in table order;
\* and once function processing has started every hoisted constant, and
\* every constant a function body loads, is declared, defined and finalized.
C7_DataBeforeFunctions ==
    /\ created <= Len(table)
    /\ Len(calls) >= 5 * created
    /\ \A j \in 1..created :
          /\ calls[5 * j - 4] = Call("data_ctx.define", table[j].name, TRUE)
          /\ calls[5 * j - 3] = Call("declare_data", table[j].name, TRUE)
          /\ calls[5 * j - 2] = Call("define_data", table[j].name, TRUE)
          /\ calls[5 * j - 1] = Call("data_ctx.clear", table[j].name, TRUE)
          /\ calls[5 * j] = Call("finalize_definitions", table[j].name, TRUE)
          /\ table[j].name \in declared
          /\ [name |-> table[j].name, contents |-> to_ne_bytes(table[j].data)] \in defined
          /\ table[j].name \in finalized
    /\ Cardinality(CallsOf("finalize_definitions")) = created
    /\ (pc = "functions" \/ emitted > 0) =>
          /\ created = Len(table)
          /\ \A i \in 1..Len(DataRefs) : DataRefs[i] \in finalized
          /\ \A i \in 1..Len(ins) : ins[i].name \in finalized

C7_Witness ==
    /\ pc = "functions"
    /\ created >= 2
    /\ emitted >= 1

\* C8: rewriter frame.  The collector leaves the program alone; the
\* rewriter changes it only by putting a symbol where a complex constant
\* was; a program with no two-element quote form and no string yields no
\* hoisted constant and is unchanged.
C8_Frame ==
    /\ ~rewritten => program = input
    /\ rewritten =>
          /\ Len(program) = Len(input)
          /\ \A i \in 1..Len(input) : Frame(input[i], program[i])
    /\ (Collected /\ ComplexNodes(input) = <<>>) => (table = <<>> /\ program = input)

C8_Witness ==
    /\ rewritten
    /\ program # input
    /\ \E i \in 1..Len(InputNodes) :
          /\ InputNodes[i].k = "List"
          /\ Len(InputNodes[i].v) = 3
          /\ InputNodes[i].v[1] = Symbol("quote")
          /\ InputNodes[i] \in { ProgramNodes[j] : j \in 1..Len(ProgramNodes) }

\* C9: backend failure propagation.  An Err carries the message of the one
\* rejected backend call, which is the last call made; a failed create_data
\* has not finalized its constant, and has not called define_data when the
\* declaration was rejected; a failed emit_data_access emitted nothing.
C9_FailurePropagation ==
    /\ Len(ins) = 2 * emitted
    /\ Cardinality({ i \in 1..Len(calls) : ~calls[i].ok }) =
          (IF result.kind = "Err" THEN 1 ELSE 0)
    /\ result.kind = "Err" =>
          LET last == calls[Len(calls)]
          IN  /\ pc = "aborted"
              /\ ~last.ok
              /\ last.op \in {"declare_data", "define_data"}
              /\ result.err = last.op \o " rejected: " \o last.name
              /\ Cardinality(CallsOf("finalize_definitions")) = created
              /\ created < Len(table) =>
                    /\ last.name = table[created + 1].name
                    /\ last.name \notin finalized
                    /\ last.name \notin { d.name : d \in defined }
                    /\ last.op = "declare_data" =>
                          \A i \in CallsOf("define_data") : calls[i].name # last.name
              /\ created = Len(table) =>
                    /\ last.op = "declare_data"
                    /\ last.name = DataRefs[emitted + 1]

C9_Witness ==
    /\ result.kind = "Err"
    /\ created >= 1
    /\ created < Len(table)
    /\ calls[Len(calls)].op = "define_data"

\* C10: table index safety.  With the table collected from the same
\* program the rewriter's counter is below len(table) at every replacement:
\* data[count] is never out of bounds.
C10_IndexSafety ==
    /\ pc # "panic"
    /\ Len(replacements) <= Len(table)
    /\ \A i \in 1..Len(replacements) :
          replacements[i].index = i - 1 /\ replacements[i].index < Len(table)

C10_Witness ==
    /\ rewritten
    /\ Len(replacements) >= 1
    /\ \E i \in 1..Len(InputNodes) :
          /\ IsQuoteForm(InputNodes[i])
          /\ ComplexNodes(<<InputNodes[i].v[2]>>) # <<>>

====
